---- MODULE Spec2Model ----
(***************************************************************************)
(* A model of lib/neural-network.js: construction of a NeuralNet from its  *)
(* option object, the forward pass (predict), one training step            *)
(* (learnSingle = predict + totalError + backward) and the training loop   *)
(* (learn).                                                                *)
(*                                                                         *)
(* Numbers.  A JavaScript number is modelled as a record [t, v]: t is      *)
(* "num" (v is the value), "undefined" or "NaN".  Real values (weights,    *)
(* activations, deltas, biases, the learning rate) are fixed-point: v is   *)
(* the value times Scale, and a product is rescaled by Scale.  Sizes and   *)
(* counts are plain integers.  Arrays are sequences, so the JavaScript     *)
(* index i is the index i + 1 here.                                        *)
(***************************************************************************)
EXTENDS Integers, Sequences, FiniteSets, TLC

(* ------------------------------ bounds -------------------------------- *)
\* Fixed-point resolution: 1.0 is Scale.
Scale == 1000
\* The random source is one of MaxSeed streams.
MaxSeed == 2
\* Input and target vectors offered to predict / learnSingle have 0..MaxLen entries.
MaxLen == 2
\* learnSingle is called at most MaxLearn times in a run of Spec.
MaxLearn == 2
\* learn is given datasets of 0..MaxData examples.
MaxData == 2

(* --------------------------- JavaScript values ------------------------ *)
Num(n) == [t |-> "num", v |-> n]
Undef == [t |-> "undefined", v |-> 0]
NaN == [t |-> "NaN", v |-> 0]
IsNum(x) == x.t = "num"

\* x || y on number-or-undefined operands: 0, NaN and undefined are falsy.
Truthy(x) == IsNum(x) /\ x.v # 0
Or(x, y) == IF Truthy(x) THEN x ELSE y

\* a[k] for the JavaScript index k - 1: undefined past the end.
At(a, k) == IF k \in 1..Len(a) THEN a[k] ELSE Undef

\* Arithmetic: any operand that is not a number gives NaN.
Add(x, y) == IF IsNum(x) /\ IsNum(y) THEN Num(x.v + y.v) ELSE NaN
Sub(x, y) == IF IsNum(x) /\ IsNum(y) THEN Num(x.v - y.v) ELSE NaN
Abs(n) == IF n < 0 THEN -n ELSE n
\* The quotient rounded toward zero.
Quot(a, b) == IF a < 0 THEN -((-a) \div b) ELSE a \div b
Mul(x, y) == IF IsNum(x) /\ IsNum(y) THEN Num(Quot(x.v * y.v, Scale)) ELSE NaN
One == Num(Scale)
Zero == Num(0)

\* The number of iterations of `for (let i = 0; i < n; i++)`: none when n is
\* undefined, NaN or not positive.
Count(n) == IF IsNum(n) /\ n.v > 0 THEN n.v ELSE 0

(* ------------------------------ options ------------------------------- *)
\* A hidden-layer size option: undefined, a number, an array of numbers or
\* something else (a string).
SizeUndef == [t |-> "undefined", n |-> 0, a |-> <<>>]
SizeNum(n) == [t |-> "num", n |-> n, a |-> <<>>]
SizeArr(a) == [t |-> "arr", n |-> 0, a |-> a]
SizeStr == [t |-> "str", n |-> 0, a |-> <<>>]
SizeTruthy(s) == s.t = "arr" \/ s.t = "str" \/ (s.t = "num" /\ s.n # 0)
SizeOr(x, y) == IF SizeTruthy(x) THEN x ELSE y

\* option.bias: undefined or an array of reals.
BiasUndef == [t |-> "undefined", a |-> <<>>]
BiasArr(a) == [t |-> "arr", a |-> a]

NoHiddenLayers == [t |-> "undefined", num |-> Undef, size |-> SizeUndef]
HiddenLayersObj(num, size) == [t |-> "obj", num |-> num, size |-> size]

\* The empty option object {}: every field undefined.
EmptyOption ==
    [t |-> "obj", hiddenLayers |-> NoHiddenLayers,
     hiddenLayerNum |-> Undef, hiddenLayerSize |-> SizeUndef,
     hiddenLayersNum |-> Undef, hiddenLayersSize |-> SizeUndef,
     learningRate |-> Undef, bias |-> BiasUndef, iterations |-> Undef]
NullOption == [EmptyOption EXCEPT !.t = "null"]

(* --------------------------- construction ----------------------------- *)
\* Math.random() * 2 - 1: the draw for weight [i][j] of layer l in stream seed,
\* one of the sixteen values -1, -7/8, ..., 7/8 of [-1, 1).
Random(seed, l, i, j) ==
    Num((((seed * 7 + l * 5 + i * 3 + j * 11) % 16) * Scale) \div 8 - Scale)

createLayer(layerSize, bias) ==
    [layerSize |-> layerSize,
     weights |-> <<>>,
     output |-> <<>>,
     deltas |-> <<>>,
     bias |-> IF bias.t = "undefined" THEN Zero ELSE bias]

\* l is the layer's position (0: input layer, k: k-th hidden layer), used
\* only to pick the layer's draws from the random stream.
createRandomWeights(layer, nextLayerNum, seed, l) ==
    [layer EXCEPT !.weights =
        [i \in 1..Count(layer.layerSize) |->
            [j \in 1..Count(nextLayerNum) |-> Random(seed, l, i, j)]]]

EmptyNet ==
    [inputLayer |-> createLayer(Undef, Undef),
     hiddenLayers |-> <<>>,
     outputLayer |-> createLayer(Undef, Undef),
     learningRate |-> Undef,
     totalError |-> Undef]

\* new NeuralNet(inputSize, outputSize, option): [thrown, net].
NeuralNet(inputSize, outputSize, opt, seed) ==
    LET option == IF opt.t = "null" THEN EmptyOption ELSE opt
        hls == IF option.hiddenLayers.t = "undefined"
               THEN HiddenLayersObj(Undef, SizeUndef) ELSE option.hiddenLayers
        hiddenLayersNum == Or(Or(hls.num, option.hiddenLayerNum), Num(2))
        hiddenLayersSize ==
            SizeOr(SizeOr(hls.size, option.hiddenLayerSize),
                   SizeArr(<<inputSize, inputSize>>))
        bias == IF option.bias.t = "undefined" THEN <<>> ELSE option.bias.a
        inputLayer == createLayer(Num(inputSize), At(bias, 1))
        outputLayer == createLayer(Num(outputSize), Zero)
        learningRate == Or(option.learningRate, Num(Scale \div 2))
        n == hiddenLayersNum.v
        sizeOf(i) ==
            IF hiddenLayersSize.t = "arr"
            THEN (IF i \in 1..Len(hiddenLayersSize.a)
                  THEN Num(hiddenLayersSize.a[i]) ELSE Undef)
            ELSE Num(hiddenLayersSize.n)
        hidden == [i \in 1..n |-> createLayer(sizeOf(i), At(bias, i))]
        nextLayerNum(i) ==
            IF i # n THEN hidden[i + 1].layerSize ELSE outputLayer.layerSize
    IN  IF n < 0                                   \* new Array(n): RangeError
        THEN [thrown |-> TRUE, net |-> EmptyNet]
        ELSE IF hiddenLayersSize.t \notin {"arr", "num"}
        THEN [thrown |-> TRUE, net |-> EmptyNet]
        ELSE [thrown |-> FALSE,
              net |-> [inputLayer |->
                          createRandomWeights(inputLayer, hidden[1].layerSize,
                                              seed, 0),
                       hiddenLayers |->
                          [i \in 1..n |->
                              createRandomWeights(hidden[i], nextLayerNum(i),
                                                  seed, i)],
                       outputLayer |-> outputLayer,
                       learningRate |-> learningRate,
                       totalError |-> Undef]]

(* ---------------------------- forward pass ---------------------------- *)
\* 1 / (1 + exp(-x)) in fixed point, by the rational approximation
\* 1/2 + x / (2 (1 + |x|)): increasing in x, 1/2 at 0, within [0, 1].
sigmoid(x) ==
    IF IsNum(x)
    THEN Num(Scale \div 2 + Quot(Scale * x.v, 2 * (Scale + Abs(x.v))))
    ELSE NaN

\* The inner loop of runInput: the sum over j of
\* prevLayer.output[j] * prevLayer.weights[j][i], starting from input.
RECURSIVE runInputSum(_, _, _, _)
runInputSum(prevLayer, i, j, input) ==
    IF j > Len(prevLayer.output) THEN input
    ELSE runInputSum(prevLayer, i, j + 1,
                     Add(input, Mul(prevLayer.output[j],
                                    At(prevLayer.weights[j], i))))

\* A faulty variant: the sum starts from the neuron's previous activation instead of 0.
runInputStale(layer, prevLayer) ==
    [layer EXCEPT !.output =
        [i \in 1..Count(layer.layerSize) |->
            sigmoid(Add(runInputSum(prevLayer, i, 1,
                                    IF i \in 1..Len(layer.output)
                                    THEN layer.output[i] ELSE Zero),
                        prevLayer.bias))]]

\* runInput(layer, prevLayer): layer.output[i] for every i < layer.layerSize.
runInput(layer, prevLayer) ==
    [layer EXCEPT !.output =
        [i \in 1..Count(layer.layerSize) |->
            sigmoid(Add(runInputSum(prevLayer, i, 1, Zero), prevLayer.bias))]]

\* The hidden layers 1..i run in order, each on the layer before it.
RECURSIVE forwardHidden(_, _, _)
forwardHidden(hiddenLayers, inputLayer, i) ==
    IF i = 0 THEN hiddenLayers
    ELSE LET hs == forwardHidden(hiddenLayers, inputLayer, i - 1)
             prev == IF i = 1 THEN inputLayer ELSE hs[i - 1]
         IN  [hs EXCEPT ![i] = runInput(hs[i], prev)]

\* A faulty variant: the input layer's activations are squashed in place, in
\* the array the caller passed.
forwardSquashed(net, input) ==
    LET hiddenLayersNum == Len(net.hiddenLayers)
        inputLayer == [net.inputLayer EXCEPT
                          !.output = [i \in 1..Len(input) |-> sigmoid(input[i])]]
        hiddenLayers == forwardHidden(net.hiddenLayers, inputLayer, hiddenLayersNum)
    IN  [net EXCEPT !.inputLayer = inputLayer,
                    !.hiddenLayers = hiddenLayers,
                    !.outputLayer = runInput(net.outputLayer,
                                             hiddenLayers[hiddenLayersNum])]

forward(net, input) ==
    LET hiddenLayersNum == Len(net.hiddenLayers)
        inputLayer == [net.inputLayer EXCEPT !.output = input]
        hiddenLayers == forwardHidden(net.hiddenLayers, inputLayer, hiddenLayersNum)
    IN  [net EXCEPT !.inputLayer = inputLayer,
                    !.hiddenLayers = hiddenLayers,
                    !.outputLayer = runInput(net.outputLayer,
                                             hiddenLayers[hiddenLayersNum])]

\* input.length !== this.inputLayer.layerSize
LengthDiffers(input, layerSize) == ~(IsNum(layerSize) /\ Len(input) = layerSize.v)

\* A faulty variant: the forward pass runs before the length is checked.
predictLate(net, input) ==
    IF LengthDiffers(input, net.inputLayer.layerSize)
    THEN [thrown |-> TRUE,
          net |-> [net EXCEPT !.inputLayer.output = input],
          result |-> <<>>]
    ELSE LET after == forward(net, input)
         IN  [thrown |-> FALSE, net |-> after, result |-> after.outputLayer.output]

\* predict(input): [thrown, net, result]; result is a copy of the output
\* layer's activations.
predict(net, input) ==
    IF LengthDiffers(input, net.inputLayer.layerSize)
    THEN [thrown |-> TRUE, net |-> net, result |-> <<>>]
    ELSE LET after == forward(net, input)
         IN  [thrown |-> FALSE, net |-> after,
              result |-> [i \in 1..Len(after.outputLayer.output) |->
                             after.outputLayer.output[i]]]

(* --------------------------- backward pass ---------------------------- *)
\* totalError(prediction, actual): .5 * sum of (actual[i] - prediction[i]) ** 2.
RECURSIVE totalErrorSum(_, _, _, _)
totalErrorSum(prediction, actual, i, error) ==
    IF i > Len(prediction) THEN error
    ELSE LET d == Sub(At(actual, i), prediction[i])
         IN  totalErrorSum(prediction, actual, i + 1, Add(error, Mul(d, d)))

totalError(prediction, actual) ==
    Mul(Num(Scale \div 2), totalErrorSum(prediction, actual, 1, Zero))

\* The output layer's deltas: (output[i] - target[i]) * output[i] * (1 - output[i]).
outputDeltas(output, target) ==
    [i \in 1..Len(output) |->
        Mul(Mul(Sub(output[i], At(target, i)), output[i]), Sub(One, output[i]))]

\* A faulty variant: each weight of the row is updated first and the updated
\* value is then read into the error sum.
RECURSIVE backwardRowUpdated(_, _, _, _, _, _)
backwardRowUpdated(row, deltas, out, learningRate, j, error) ==
    IF j > Len(deltas) THEN [row |-> row, error |-> error]
    ELSE LET w == Sub(row[j], Mul(Mul(learningRate, deltas[j]), out))
         IN  backwardRowUpdated([row EXCEPT ![j] = w], deltas, out,
                                learningRate, j + 1,
                                Add(error, Mul(deltas[j], w)))

\* The innermost loop of backward, for one neuron of a layer: each weight of
\* the row is read into the error sum and then updated in place.
RECURSIVE backwardRow(_, _, _, _, _, _)
backwardRow(row, deltas, out, learningRate, j, error) ==
    IF j > Len(deltas) THEN [row |-> row, error |-> error]
    ELSE backwardRow(
            [row EXCEPT ![j] = Sub(row[j], Mul(Mul(learningRate, deltas[j]), out))],
            deltas, out, learningRate, j + 1,
            Add(error, Mul(deltas[j], row[j])))

\* One layer of backward: for each neuron i the row loop, then the neuron's delta.
RECURSIVE backwardLayer(_, _, _, _)
backwardLayer(layer, deltas, learningRate, i) ==
    IF i > Len(layer.output) THEN layer
    ELSE LET r == backwardRow(layer.weights[i], deltas, layer.output[i],
                              learningRate, 1, Zero)
             d == Mul(Mul(r.error, layer.output[i]), Sub(One, layer.output[i]))
         IN  backwardLayer(
                [layer EXCEPT !.weights[i] = r.row,
                              !.deltas = Append(layer.deltas, d)],
                deltas, learningRate, i + 1)

\* The hidden layers i..1, last first, each from the deltas of the layer after it.
RECURSIVE backwardHidden(_, _, _, _)
backwardHidden(hiddenLayers, outputLayer, learningRate, i) ==
    IF i = 0 THEN hiddenLayers
    ELSE LET deltas == IF i = Len(hiddenLayers) THEN outputLayer.deltas
                       ELSE hiddenLayers[i + 1].deltas
             layer == backwardLayer([hiddenLayers[i] EXCEPT !.deltas = <<>>],
                                    deltas, learningRate, 1)
         IN  backwardHidden([hiddenLayers EXCEPT ![i] = layer], outputLayer,
                            learningRate, i - 1)

backward(net, target) ==
    LET outputLayer ==
            [net.outputLayer EXCEPT
                !.deltas = outputDeltas(net.outputLayer.output, target)]
        hiddenLayers ==
            backwardHidden(net.hiddenLayers, outputLayer, net.learningRate,
                           Len(net.hiddenLayers))
        inputLayer ==
            backwardLayer([net.inputLayer EXCEPT !.deltas = <<>>],
                          hiddenLayers[1].deltas, net.learningRate, 1)
    IN  [net EXCEPT !.inputLayer = inputLayer,
                    !.hiddenLayers = hiddenLayers,
                    !.outputLayer = outputLayer]

\* learnSingle(input, output): [thrown, net].
learnSingle(net, input, output) ==
    LET p == predict(net, input)
    IN  IF p.thrown THEN [thrown |-> TRUE, net |-> p.net]
        ELSE [thrown |-> FALSE,
              net |-> backward([p.net EXCEPT
                                   !.totalError = totalError(p.result, output)],
                               output)]

(* ---------------------- the two-phase revision ------------------------ *)
\* The earlier revision of learnSingle works in two phases: every layer's
\* errors (deltas) are computed first, and the weights are updated afterwards.
\* Here it runs on the layer records of this revision, and a weight's step is
\* the product learningRate * delta * activation as backward takes it.

\* -(actual[i] - value) * value * (1 - value) for every output neuron.
updateOutputLayerError(outputLayer, actual) ==
    [outputLayer EXCEPT !.deltas =
        [i \in 1..Len(outputLayer.output) |->
            Mul(Mul(Sub(Zero, Sub(At(actual, i), outputLayer.output[i])),
                    outputLayer.output[i]),
                Sub(One, outputLayer.output[i]))]]

\* The sum over the next layer's neurons j of nextNeuron.error * weights[j].
RECURSIVE errorSum(_, _, _, _)
errorSum(weights, nextDeltas, j, error) ==
    IF j > Len(nextDeltas) THEN error
    ELSE errorSum(weights, nextDeltas, j + 1,
                  Add(error, Mul(nextDeltas[j], weights[j])))

\* updateOneLayerError(layer, nextLayer): every neuron's error from the next
\* layer's errors and the neuron's weights; no weight is written.
updateOneLayerError(layer, nextLayer) ==
    [layer EXCEPT !.deltas =
        [i \in 1..Len(layer.output) |->
            Mul(Mul(errorSum(layer.weights[i], nextLayer.deltas, 1, Zero),
                    layer.output[i]),
                Sub(One, layer.output[i]))]]

\* The hidden layers i..1, last first, each from the layer after it.
RECURSIVE updateHiddenLayersError(_, _, _)
updateHiddenLayersError(hiddenLayers, outputLayer, i) ==
    IF i = 0 THEN hiddenLayers
    ELSE LET nextLayer == IF i = Len(hiddenLayers) THEN outputLayer
                          ELSE hiddenLayers[i + 1]
         IN  updateHiddenLayersError(
                [hiddenLayers EXCEPT
                    ![i] = updateOneLayerError(hiddenLayers[i], nextLayer)],
                outputLayer, i - 1)

\* updateWeights(layer, learningRate): every weight of the layer takes its step.
updateWeights(layer, nextLayer, learningRate) ==
    [layer EXCEPT !.weights =
        [i \in 1..Len(layer.weights) |->
            [j \in 1..Len(layer.weights[i]) |->
                IF i <= Len(layer.output) /\ j <= Len(nextLayer.deltas)
                THEN Sub(layer.weights[i][j],
                         Mul(Mul(learningRate, nextLayer.deltas[j]),
                             layer.output[i]))
                ELSE layer.weights[i][j]]]]

\* learnSingle of the two-phase revision: [thrown, net].
learnSingleTwoPhase(n, input, output) ==
    LET p == predict(n, input)
        outputLayer == updateOutputLayerError(p.net.outputLayer, output)
        hiddenLayers ==
            updateHiddenLayersError(p.net.hiddenLayers, outputLayer,
                                    Len(p.net.hiddenLayers))
        inputLayer == updateOneLayerError(p.net.inputLayer, hiddenLayers[1])
        hiddenLayersNum == Len(hiddenLayers)
    IN  IF p.thrown THEN [thrown |-> TRUE, net |-> p.net]
        ELSE [thrown |-> FALSE,
              net |-> [p.net EXCEPT
                  !.totalError = totalError(p.result, output),
                  !.inputLayer =
                      updateWeights(inputLayer, hiddenLayers[1], n.learningRate),
                  !.hiddenLayers =
                      [i \in 1..hiddenLayersNum |->
                          updateWeights(hiddenLayers[i],
                                        IF i = hiddenLayersNum THEN outputLayer
                                        ELSE hiddenLayers[i + 1],
                                        n.learningRate)],
                  !.outputLayer = outputLayer]]

(* ------------------------------- learn -------------------------------- *)
\* The number of passes learn makes over train_data.
Passes == 2000

\* The iterations value of the readme's option object.
ReadmeIterations == 5000

\* A faulty variant: the examples of a pass are taken last first.
exampleReversed(train_data, k) == train_data[Len(train_data) - k]

\* `for (const example of train_data)`: the example after k examples of the pass.
example(train_data, k) == train_data[k + 1]

(* ------------------------------- state -------------------------------- *)
VARIABLES
    net,        \* the NeuralNet object (EmptyNet before construction)
    ctor,       \* the constructor call: its arguments and whether it threw
    call,       \* the last predict / learnSingle call: arguments and outcome
    memo,       \* one remembered successful prediction since the last learnSingle
    nLearn,     \* the number of learnSingle calls made directly
    pc,         \* learn: "idle", "loop", "returned" or "thrown"
    data,       \* learn: its train_data
    pass,       \* learn: the outer loop's i
    k,          \* learn: the examples of this pass already taken
    calls       \* learn: the learnSingle calls it has made

vars == <<net, ctor, call, memo, nLearn, pc, data, pass, k, calls>>

NoCtor ==
    [called |-> FALSE, thrown |-> FALSE, inputSize |-> 0, outputSize |-> 0,
     option |-> NullOption, seed |-> 0]
NoCall ==
    [op |-> "none", thrown |-> FALSE, input |-> <<>>, target |-> <<>>,
     result |-> <<>>]
NoMemo == [set |-> FALSE, other |-> FALSE, input |-> <<>>, output |-> <<>>]

\* The vectors offered to predict: for every length 0..MaxLen the two
\* alternating patterns 1, 0, 1, ... and 0, 1, 0, ...; and those offered to
\* learnSingle as input and as target: the first pattern of every length.
Vec(b, len) == [i \in 1..len |-> Num(((i + b) % 2) * Scale)]
Vectors == {Vec(b, len) : b \in 0..1, len \in 0..MaxLen}
Samples == {Vec(0, len) : len \in 0..MaxLen}

Weights(n) ==
    <<n.inputLayer.weights, [i \in 1..Len(n.hiddenLayers) |-> n.hiddenLayers[i].weights]>>

(* ------------------------ the option objects -------------------------- *)
Nums == {Undef} \cup {Num(n) : n \in -1..3}
Sizes ==
    {SizeUndef, SizeStr} \cup {SizeNum(n) : n \in 0..2}
    \cup {SizeArr(a) : a \in {<<>>, <<1>>, <<2, 1>>, <<1, 2, 1>>, <<2, 0>>, <<1, -1>>}}

\* { hiddenLayers: { num, size } }
NestedOption(num, size) ==
    [EmptyOption EXCEPT !.hiddenLayers = HiddenLayersObj(num, size)]
\* { hiddenLayersNum, hiddenLayersSize }
PluralOption(num, size) ==
    [EmptyOption EXCEPT !.hiddenLayersNum = num, !.hiddenLayersSize = size]
\* { hiddenLayerNum, hiddenLayerSize }
SingularOption(num, size) ==
    [EmptyOption EXCEPT !.hiddenLayerNum = num, !.hiddenLayerSize = size]

Options ==
    {NullOption}
    \cup {NestedOption(num, size) : num \in Nums, size \in Sizes}
    \cup {PluralOption(num, size) : num \in Nums, size \in Sizes}
    \cup {SingularOption(num, size) : num \in Nums, size \in Sizes}
    \cup {[NestedOption(Num(2), SizeArr(<<2, 1>>)) EXCEPT
              !.bias = BiasArr(<<Num(Scale \div 4), Num(Scale \div 2),
                                 Num(Scale)>>),
              !.learningRate = lr, !.iterations = it] :
          lr \in {Undef, Num(Scale \div 4)}, it \in {Undef, Num(ReadmeIterations)}}

(* ----------------------------- operations ----------------------------- *)
\* new NeuralNet(inputSize, outputSize, option)
Construct ==
    /\ ~ctor.called
    /\ \E inputSize \in -1..2, outputSize \in 0..2, option \in Options,
          seed \in 1..MaxSeed :
          LET r == NeuralNet(inputSize, outputSize, option, seed)
          IN  /\ ctor' = [called |-> TRUE, thrown |-> r.thrown,
                          inputSize |-> inputSize, outputSize |-> outputSize,
                          option |-> option, seed |-> seed]
              /\ net' = r.net
    /\ UNCHANGED <<call, memo, nLearn, pc, data, pass, k, calls>>

\* neural.predict(input); the caller may remember the prediction.
Predict ==
    /\ ctor.called /\ ~ctor.thrown /\ pc = "idle"
    /\ \E input \in Vectors, remember \in BOOLEAN :
          LET r == predict(net, input)
          IN  /\ net' = r.net
              /\ call' = [op |-> "predict", thrown |-> r.thrown, input |-> input,
                          target |-> <<>>, result |-> r.result]
              /\ memo' = IF r.thrown THEN memo
                         ELSE IF remember
                         THEN [set |-> TRUE, other |-> FALSE, input |-> input,
                               output |-> r.result]
                         ELSE IF memo.set /\ memo.input # input
                         THEN [memo EXCEPT !.other = TRUE]
                         ELSE memo
    /\ UNCHANGED <<ctor, nLearn, pc, data, pass, k, calls>>

\* neural.learnSingle(input, output)
LearnSingle ==
    /\ ctor.called /\ ~ctor.thrown /\ pc = "idle"
    /\ nLearn < MaxLearn
    /\ \E input \in Samples, output \in Samples :
          LET r == learnSingle(net, input, output)
          IN  /\ net' = r.net
              /\ call' = [op |-> "learnSingle", thrown |-> r.thrown,
                          input |-> input, target |-> output, result |-> <<>>]
    /\ memo' = NoMemo
    /\ nLearn' = nLearn + 1
    /\ UNCHANGED <<ctor, pc, data, pass, k, calls>>

\* The examples of the datasets given to learn: two for a network of one
\* input and one output, and one whose input is too long for it.
Examples ==
    {[input |-> Vec(0, 1), output |-> Vec(1, 1)],
     [input |-> Vec(1, 1), output |-> Vec(0, 1)],
     [input |-> Vec(0, 2), output |-> Vec(0, 1)]}

RECURSIVE Datasets(_)
Datasets(n) ==
    IF n = 0 THEN {<<>>}
    ELSE Datasets(n - 1) \cup
         {Append(d, e) : d \in {x \in Datasets(n - 1) : Len(x) = n - 1},
                         e \in Examples}

\* neural.learn(train_data) is entered.
LearnCall ==
    /\ ctor.called /\ ~ctor.thrown /\ pc = "idle"
    /\ \E train_data \in Datasets(MaxData) : data' = train_data
    /\ pc' = "loop"
    /\ pass' = 0
    /\ k' = 0
    /\ calls' = 0
    /\ UNCHANGED <<net, ctor, call, memo, nLearn>>

\* The body of the inner loop: learnSingle on the next example of the pass.
LearnExample ==
    /\ pc = "loop" /\ pass < Passes /\ k < Len(data)
    /\ LET e == example(data, k)
           r == learnSingle(net, e.input, e.output)
       IN  /\ net' = r.net
           /\ call' = [op |-> "learnSingle", thrown |-> r.thrown,
                       input |-> e.input, target |-> e.output, result |-> <<>>]
           /\ pc' = IF r.thrown THEN "thrown" ELSE "loop"
           /\ k' = IF r.thrown THEN k ELSE k + 1
    /\ calls' = calls + 1
    /\ memo' = NoMemo
    /\ UNCHANGED <<ctor, nLearn, data, pass>>

\* The inner loop is over: i++.
LearnNextPass ==
    /\ pc = "loop" /\ pass < Passes /\ k = Len(data)
    /\ pass' = pass + 1
    /\ k' = 0
    /\ UNCHANGED <<net, ctor, call, memo, nLearn, pc, data, calls>>

\* i < 2000 fails: learn returns.
LearnReturn ==
    /\ pc = "loop" /\ ~(pass < Passes)
    /\ pc' = "returned"
    /\ UNCHANGED <<net, ctor, call, memo, nLearn, data, pass, k, calls>>

(* --------------------------- specifications --------------------------- *)
Idle ==
    /\ call = NoCall /\ memo = NoMemo /\ nLearn = 0
    /\ pc = "idle" /\ data = <<>> /\ pass = 0 /\ k = 0 /\ calls = 0

Constructed(inputSize, outputSize, option, seed) ==
    LET r == NeuralNet(inputSize, outputSize, option, seed)
    IN  /\ ctor = [called |-> TRUE, thrown |-> r.thrown,
                   inputSize |-> inputSize, outputSize |-> outputSize,
                   option |-> option, seed |-> seed]
        /\ net = r.net

\* The constructor alone, over every option object of Options.
InitNew == ctor = NoCtor /\ net = EmptyNet /\ Idle
NextNew == Construct
SpecNew == InitNew /\ [][NextNew]_vars

\* predict and learnSingle on a constructed network.
Networks ==
    {<<2, 1, NullOption>>,
     <<1, 1, NestedOption(Num(1), SizeNum(2))>>,
     <<1, 2, [NestedOption(Num(3), SizeArr(<<1, 2, 1>>)) EXCEPT
                 !.bias = BiasArr(<<Num(Scale \div 4), Num(Scale \div 2),
                                    Num(Scale)>>),
                 !.learningRate = Num(Scale \div 4)]>>,
     <<2, 1, NestedOption(Num(3), SizeUndef)>>}

Init ==
    /\ \E c \in Networks, seed \in 1..MaxSeed : Constructed(c[1], c[2], c[3], seed)
    /\ Idle
Next == Predict \/ LearnSingle
Spec == Init /\ [][Next]_vars

\* learn on a constructed network.  learn runs to completion on its caller's
\* thread, so each of its steps is taken once it is enabled.
InitLearn ==
    /\ \E it \in {Undef, Num(ReadmeIterations)} :
          Constructed(1, 1, [NestedOption(Num(1), SizeNum(1)) EXCEPT
                                !.iterations = it], 1)
    /\ Idle
NextLearn == LearnCall \/ LearnExample \/ LearnNextPass \/ LearnReturn
SpecLearn == InitLearn /\ [][NextLearn]_vars /\ WF_vars(NextLearn)

(* ------------------------------- claims ------------------------------- *)
\* C1: a predict call whose input length differs from the input layer's size
\* throws, and the whole network (weights, biases, learning rate and every
\* layer's cached activations, the input layer's included) is as before the call.
C1_PredictRejectsBadLength ==
    [][(call'.op = "predict"
          /\ LengthDiffers(call'.input, net.inputLayer.layerSize))
       => (call'.thrown /\ net' = net)]_vars

\* A trained network holding cached activations has rejected a predict call.
C1_Witness ==
    /\ call.op = "predict" /\ call.thrown
    /\ nLearn > 0
    /\ Len(net.inputLayer.output) > 0 /\ Len(net.outputLayer.output) > 0

\* C2: a learnSingle call whose target length differs from the output size
\* throws, and every weight of every layer is as before the call.
C2_LearnSingleRejectsBadTarget ==
    [][(call'.op = "learnSingle"
          /\ Len(call'.target) # Count(net.outputLayer.layerSize))
       => (call'.thrown /\ Weights(net') = Weights(net))]_vars

\* The constructor was called with positive inputSize and outputSize and with
\* none of the option fields the claims below are not about.
PlainCall ==
    /\ ctor.called /\ ctor.inputSize >= 1 /\ ctor.outputSize >= 1
    /\ ctor.option.hiddenLayerNum = Undef
    /\ ctor.option.hiddenLayerSize = SizeUndef
AllPositive(a) == \A i \in 1..Len(a) : a[i] >= 1

\* C3: construction with a hidden-layer size array (of positive sizes) whose
\* length differs from the hidden-layer count throws.
C3_SizeLengthMismatchThrows ==
    LET hls == ctor.option.hiddenLayers
    IN  (/\ PlainCall /\ hls.t = "obj"
         /\ IsNum(hls.num) /\ hls.num.v >= 1
         /\ hls.size.t = "arr" /\ AllPositive(hls.size.a)
         /\ Len(hls.size.a) # hls.num.v)
        => ctor.thrown

\* C4: construction throws whenever inputSize, outputSize or a hidden-layer
\* size is not a positive integer.
C4_NonPositiveSizeThrows ==
    LET hls == ctor.option.hiddenLayers
    IN  (/\ ctor.called
         /\ \/ /\ ctor.option = NullOption
               /\ (ctor.inputSize <= 0 \/ ctor.outputSize <= 0)
            \/ /\ PlainCall /\ hls.t = "obj"
               /\ IsNum(hls.num) /\ hls.num.v >= 1
               /\ \/ hls.size.t = "num" /\ hls.size.n <= 0
                  \/ /\ hls.size.t = "arr" /\ Len(hls.size.a) = hls.num.v
                     /\ ~AllPositive(hls.size.a))
        => ctor.thrown

\* C5: every constructed network has at least one hidden layer, and
\* construction with hiddenLayers.num = 0 throws.
C5_ZeroHiddenLayersThrows ==
    LET hls == ctor.option.hiddenLayers
    IN  ctor.called =>
          /\ ~ctor.thrown => Len(net.hiddenLayers) >= 1
          /\ (/\ PlainCall /\ hls.num = Num(0)
              /\ (hls.size = SizeUndef \/ (hls.size.t = "num" /\ hls.size.n >= 1)))
             => ctor.thrown

\* C6: when learn returns it has made option.iterations passes if the option
\* was given, and 2000 passes if not.
DefaultIterations == 2000
C6_LearnRunsIterationsOption ==
    pc = "returned" =>
        pass = (IF IsNum(ctor.option.iterations) THEN ctor.option.iterations.v
                ELSE DefaultIterations)

\* The steps learn still has to take: the examples left in this pass, and for
\* each pass left its examples and its i++.
StepsLeft == (Passes - pass) * (Len(data) + 1) - k

\* While learn runs, one of its steps can be taken: the loop conditions of
\* LearnExample, LearnNextPass and LearnReturn cover every position.
LearnCanStep ==
    \/ pass < Passes /\ k < Len(data)
    \/ pass < Passes /\ k = Len(data)
    \/ ~(pass < Passes)

\* C7: learn always ends: while it runs it can take a step, and each step
\* lowers StepsLeft, which is never negative, or ends it.  Each learnSingle
\* call it makes is on the next example of the pass in dataset order, so that
\* after `pass` whole passes and k examples it has made
\* pass * (dataset length) + k calls, and Passes * (dataset length) calls when
\* it returns.
C7_LearnTerminatesInOrder ==
    /\ [](pc = "loop" => LearnCanStep /\ StepsLeft >= 0)
    /\ [][pc = "loop" => (pc' # "loop" \/ StepsLeft' < StepsLeft)]_vars
    /\ [](pc = "loop" => calls = pass * Len(data) + k)
    /\ [](pc = "returned" => pass = Passes /\ calls = Passes * Len(data))
    /\ [][calls' # calls =>
            /\ calls' = calls + 1
            /\ call'.op = "learnSingle"
            /\ call'.input = data[k + 1].input
            /\ call'.target = data[k + 1].output]_vars

\* learn has returned from a dataset of two different examples and the empty
\* dataset is among the datasets (MaxData >= 2 examples, Passes passes each).
C7_Witness ==
    /\ pc = "returned" /\ Len(data) = 2 /\ data[1] # data[2]
    /\ calls = 2 * Passes

\* C8: both documented option forms, { hiddenLayers: { num: n, size: s } } and
\* { hiddenLayersNum: n, hiddenLayersSize: s }, give n hidden layers, the i-th
\* of size s[i].
C8_BothOptionFormsConfigure ==
    LET o == ctor.option
        nested == o.hiddenLayers.t = "obj"
        num == IF nested THEN o.hiddenLayers.num ELSE o.hiddenLayersNum
        size == IF nested THEN o.hiddenLayers.size ELSE o.hiddenLayersSize
    IN  (/\ PlainCall
         /\ IsNum(num) /\ num.v >= 1
         /\ size.t = "arr" /\ AllPositive(size.a) /\ Len(size.a) = num.v)
        => /\ ~ctor.thrown
           /\ Len(net.hiddenLayers) = num.v
           /\ \A i \in 1..Len(net.hiddenLayers) :
                 net.hiddenLayers[i].layerSize = Num(size.a[i])

\* C9: with no hidden-layer size configured every hidden layer has size
\* inputSize, whatever the hidden-layer count n >= 1; with a single number as
\* the size every hidden layer has that size.
C9_DefaultAndUniformSizes ==
    LET hls == ctor.option.hiddenLayers
    IN  (/\ PlainCall /\ ctor.option.hiddenLayersSize = SizeUndef
         /\ hls.t = "obj" /\ IsNum(hls.num) /\ hls.num.v >= 1
         /\ (hls.size = SizeUndef \/ (hls.size.t = "num" /\ hls.size.n >= 1)))
        => /\ ~ctor.thrown
           /\ Len(net.hiddenLayers) = hls.num.v
           /\ hls.size = SizeUndef =>
                 \A i \in 1..Len(net.hiddenLayers) :
                    net.hiddenLayers[i].layerSize = Num(ctor.inputSize)
           /\ (hls.size.t = "num" /\ hls.size.n >= 1) =>
                 \A i \in 1..Len(net.hiddenLayers) :
                    net.hiddenLayers[i].layerSize = Num(hls.size.n)

\* C10: a successful predict call on an input returns the output vector that
\* the remembered predict call on the same input returned, when no learnSingle
\* call was made since, whatever other inputs were predicted in between.
C10_PredictDeterministic ==
    (/\ call.op = "predict" /\ ~call.thrown
     /\ memo.set /\ memo.input = call.input)
    => call.result = memo.output

\* After a learnSingle call a prediction was remembered, another input was
\* predicted, and the remembered input has been predicted again.
C10_Witness ==
    /\ nLearn > 0
    /\ memo.set /\ memo.other
    /\ call.op = "predict" /\ ~call.thrown /\ call.input = memo.input
    /\ net.inputLayer.output = call.input

\* The layers in order: the input layer, the hidden layers, the output layer.
Layers(n) == <<n.inputLayer>> \o n.hiddenLayers \o <<n.outputLayer>>

\* C11: in every state every weight row of a non-output layer has as many
\* entries as the next layer's size; after a successful forward pass (a
\* predict or learnSingle call that did not throw) every layer's activation
\* vector is as long as the layer's size; and a successful predict call
\* returns a vector of length outputSize.
C11_LayerShapes ==
    LET layers == Layers(net)
    IN  /\ \A l \in 1..(Len(layers) - 1) :
              \A i \in 1..Len(layers[l].weights) :
                 layers[l + 1].layerSize = Num(Len(layers[l].weights[i]))
        /\ (call.op \in {"predict", "learnSingle"} /\ ~call.thrown) =>
              \A l \in 1..Len(layers) :
                 layers[l].layerSize = Num(Len(layers[l].output))
        /\ (call.op = "predict" /\ ~call.thrown) =>
              Len(call.result) = ctor.outputSize

\* C12: a learnSingle call that does not throw leaves the network (every
\* layer's deltas and weights) as the two-phase computation leaves it, which
\* computes every delta from the weights as they were before the call and
\* only then updates the weights.
C12_BackwardEqualsTwoPhase ==
    [][(call'.op = "learnSingle" /\ ~call'.thrown)
       => net' = learnSingleTwoPhase(net, call'.input, call'.target).net]_vars

\* A learnSingle call on a network of three hidden layers has left deltas
\* other than 0 on the last hidden layer and on the hidden layer before it,
\* the weights between them having been updated in the same call.
C12_Witness ==
    /\ call.op = "learnSingle" /\ ~call.thrown
    /\ Len(net.hiddenLayers) = 3
    /\ \E i \in 1..Len(net.hiddenLayers[3].deltas) :
          /\ IsNum(net.hiddenLayers[3].deltas[i])
          /\ net.hiddenLayers[3].deltas[i].v # 0
    /\ \E i \in 1..Len(net.hiddenLayers[2].deltas) :
          /\ IsNum(net.hiddenLayers[2].deltas[i])
          /\ net.hiddenLayers[2].deltas[i].v # 0

\* Everything of the network but the layers' cached activations: the
\* learning rate, totalError and every layer's size, weights, bias and deltas.
Frame(n) ==
    [learningRate |-> n.learningRate,
     totalError |-> n.totalError,
     layers |-> [l \in 1..Len(Layers(n)) |-> [Layers(n)[l] EXCEPT !.output = <<>>]]]

\* C13: a predict call that does not throw changes nothing of the network
\* but the layers' cached activations, and the caller's input array, which
\* the input layer holds as its activations, has the values it was passed
\* with; a step that changes a weight is a learnSingle call.
C13_PredictChangesOnlyActivations ==
    [][/\ (call'.op = "predict" /\ ~call'.thrown) =>
             /\ Frame(net') = Frame(net)
             /\ net'.inputLayer.output = call'.input
       /\ Weights(net') # Weights(net) => call'.op = "learnSingle"]_vars

\* A trained network (totalError and deltas set) has answered a predict call
\* on a non-empty input.
C13_Witness ==
    /\ call.op = "predict" /\ ~call.thrown /\ Len(call.input) > 0
    /\ nLearn > 0 /\ IsNum(net.totalError)
    /\ Len(net.outputLayer.deltas) > 0
    /\ Len(call.result) > 0

\* The entry of the bias list b for JavaScript index i, 0 when there is none.
BiasEntry(b, i) == IF At(b, i + 1).t = "undefined" THEN Zero ELSE At(b, i + 1)

\* C14: with a bias list b in the option, the input layer's bias is b[0], the
\* i-th hidden layer's bias (i = 1..n) is b[i], a layer without an entry has
\* bias 0, and the output layer's bias is 0; without a bias list every
\* layer's bias is 0 (for a network of positive inputSize and outputSize).
C14_BiasPerLayer ==
    LET b == IF ctor.option.bias.t = "arr" THEN ctor.option.bias.a ELSE <<>>
    IN  (/\ ctor.called /\ ~ctor.thrown
         /\ ctor.inputSize >= 1 /\ ctor.outputSize >= 1) =>
          /\ net.inputLayer.bias = BiasEntry(b, 0)
          /\ \A i \in 1..Len(net.hiddenLayers) :
                net.hiddenLayers[i].bias = BiasEntry(b, i)
          /\ net.outputLayer.bias = Zero

====
